---- MODULE Spec2Model ----
(***************************************************************************)
(* A model of the frozen-balance / balance-cap CW20 token contract         *)
(* (src/src/contract.rs) on top of the cw20-base ledger primitives it      *)
(* calls.  The persisted state is the contract's key-value storage; every  *)
(* entry point is a function from (storage, message) to (result, storage)  *)
(* and an action applies it.                                               *)
(*                                                                         *)
(* Conventions                                                             *)
(*  - Option<T> is a set: {} is None, {v} is Some(v).                      *)
(*  - A Map<K,V> is a function whose DOMAIN is the set of stored keys.     *)
(*  - Uint128 is 0..MaxU128; MaxU128 stands for 2^128 - 1.                 *)
(*  - A handler returns [res, st]: res is "Ok", an error name, or "Panic"  *)
(*    (the arithmetic operators of Uint128 abort on overflow); st is the   *)
(*    storage as the handler left it.  A panic aborts the call, and the    *)
(*    storage is the one before the call.  On an error return st holds     *)
(*    whatever the handler had written before the failing statement; the   *)
(*    runtime then discards it (Commit).                                   *)
(*  - The maps of state.rs are keyed by their storage namespace: the two    *)
(*    registry maps are declared with the same namespace and so are one    *)
(*    variable, resource_id_to_token_contract_address, holding the stored  *)
(*    JSON text of each entry.                                             *)
(*  - registered is a history variable: the resource ids and the addresses *)
(*    named by the SetResourceId calls that succeeded, and the addresses   *)
(*    named by the WhiteList and the BurnList calls that succeeded.        *)
(*  - Expiration of allowances is not modelled (every allowance is         *)
(*    Expiration::Never); marketing info and logo are not modelled.        *)
(***************************************************************************)
EXTENDS Integers, Sequences, FiniteSets, TLC

VARIABLES phase, BALANCES, FROZEN_BALANCES, ALLOWANCES, TOKEN_INFO, BALANCE_CAP,
          WHITELIST, BURNLIST, resource_id_to_token_contract_address, registered

storeVars == <<BALANCES, FROZEN_BALANCES, ALLOWANCES, TOKEN_INFO, BALANCE_CAP,
               WHITELIST, BURNLIST, resource_id_to_token_contract_address>>
vars == <<phase, BALANCES, FROZEN_BALANCES, ALLOWANCES, TOKEN_INFO, BALANCE_CAP,
          WHITELIST, BURNLIST, resource_id_to_token_contract_address, registered>>

----------------------------------------------------------------------------
(* Bounds *)

\* the largest Uint128 value of the model (stands for 2^128 - 1)
MaxU128 == 2

\* the longest initial_balances list of an Instantiate message
MaxInitLen == 2

\* the longest frozen_balances list of an Instantiate message
MaxFrozenLen == 1

Addr == {"a1", "a2", "a3"}

U128 == 0..MaxU128

----------------------------------------------------------------------------
(* Storage primitives (cw_storage_plus::Map / Item) *)

Has(m, k) == k \in DOMAIN m

\* Map::save
Save(m, k, v) == [x \in (DOMAIN m) \cup {k} |-> IF x = k THEN v ELSE m[x]]

\* Map::remove
Remove(m, k) == [x \in (DOMAIN m) \ {k} |-> m[x]]

\* Map::load(..).unwrap_or(default) / may_load(..).unwrap_or_default()
LoadOr(m, k, d) == IF Has(m, k) THEN m[k] ELSE d

EmptyMap == [x \in {} |-> 0]

\* the value of Some(v)
The(opt) == CHOOSE v \in opt : TRUE

Store ==
  [bal |-> BALANCES, frozen |-> FROZEN_BALANCES, allow |-> ALLOWANCES,
   info |-> TOKEN_INFO, cap |-> BALANCE_CAP,
   white |-> WHITELIST, burn |-> BURNLIST,
   reg |-> resource_id_to_token_contract_address]

Ret(r, s) == [res |-> r, st |-> s]

----------------------------------------------------------------------------
(* Instantiate *)

\* msg.rs is_valid_name: 3..50 bytes
is_valid_name(name_len) == ~(name_len < 3 \/ name_len > 50)

\* msg.rs is_valid_symbol: 3..12 bytes, each '-', 'A'..'Z' or 'a'..'z'
is_valid_symbol(symbol) ==
  /\ ~(Len(symbol) < 3 \/ Len(symbol) > 12)
  /\ \A i \in 1..Len(symbol) :
       ~(symbol[i] # 45 /\ (symbol[i] < 65 \/ symbol[i] > 90)
                        /\ (symbol[i] < 97 \/ symbol[i] > 122))

\* msg.rs Instantiate::validate
validate(msg) ==
  IF ~is_valid_name(msg.name_len) THEN "GenericErr"
  ELSE IF ~is_valid_symbol(msg.symbol) THEN "GenericErr"
  ELSE IF msg.decimals > 18 THEN "GenericErr"
  ELSE "Ok"

\* msg.rs Instantiate::get_cap
get_cap(mint) == IF mint = {} THEN {} ELSE The(mint).cap

RECURSIVE SumAmounts(_)
SumAmounts(coins) ==
  IF coins = <<>> THEN 0 ELSE coins[1].amount + SumAmounts(Tail(coins))

RECURSIVE SaveAll(_, _)
\* the loop "for account in list { MAP.save(address, amount) }"
SaveAll(m, coins) ==
  IF coins = <<>> THEN m
  ELSE SaveAll(Save(m, coins[1].address, coins[1].amount), Tail(coins))

\* contract.rs create_accounts: balances, then frozen balances, then the cap;
\* total_supply += amount aborts when the running sum leaves Uint128
create_accounts(s, msg) ==
  IF SumAmounts(msg.initial_balances) > MaxU128
    THEN [res |-> "Panic", st |-> s, total_supply |-> 0]
    ELSE [res |-> "Ok",
          st |-> [s EXCEPT !.bal = SaveAll(s.bal, msg.initial_balances),
                           !.frozen = SaveAll(s.frozen, msg.frozen_balances),
                           !.cap = {msg.bal_cap}],
          total_supply |-> SumAmounts(msg.initial_balances)]

\* contract.rs instantiate
instantiate(s, msg) ==
  IF validate(msg) # "Ok" THEN Ret(validate(msg), s)
  ELSE IF \E i \in 1..Len(msg.initial_balances) :
            msg.initial_balances[i].amount > msg.bal_cap
    THEN Ret("CannotExceedCap", s)
  ELSE LET ca == create_accounts(s, msg) IN
    IF ca.res # "Ok" THEN Ret(ca.res, s)
    ELSE IF get_cap(msg.mint) # {} /\ ca.total_supply > The(get_cap(msg.mint))
      THEN Ret("GenericErr", ca.st)
    ELSE Ret("Ok", [ca.st EXCEPT !.info =
                      {[total_supply |-> ca.total_supply, mint |-> msg.mint]}])

----------------------------------------------------------------------------
(* cw20-base ledger primitives called by the contract *)

\* cw20_base::allowances::deduct_allowance: ALLOWANCES.update on (owner, spender)
deduct_allowance(s, owner, spender, amount) ==
  IF ~Has(s.allow, <<owner, spender>>) THEN Ret("NoAllowance", s)
  ELSE IF amount > s.allow[<<owner, spender>>] THEN Ret("Overflow", s)
  ELSE Ret("Ok", [s EXCEPT !.allow =
                    Save(s.allow, <<owner, spender>>, s.allow[<<owner, spender>>] - amount)])

\* BALANCES.update(addr, |b| b.unwrap_or_default().checked_sub(amount))
debit(s, addr, amount) ==
  IF amount > LoadOr(s.bal, addr, 0) THEN Ret("Overflow", s)
  ELSE Ret("Ok", [s EXCEPT !.bal = Save(s.bal, addr, LoadOr(s.bal, addr, 0) - amount)])

\* BALANCES.update(addr, |b| b.unwrap_or_default() + amount): aborts on overflow
credit(s, addr, amount) ==
  IF LoadOr(s.bal, addr, 0) + amount > MaxU128 THEN Ret("Panic", s)
  ELSE Ret("Ok", [s EXCEPT !.bal = Save(s.bal, addr, LoadOr(s.bal, addr, 0) + amount)])

\* TOKEN_INFO.update(|info| info.total_supply = info.total_supply.checked_sub(amount))
reduce_supply(s, amount) ==
  IF s.info = {} THEN Ret("NotFound", s)
  ELSE IF amount > The(s.info).total_supply THEN Ret("Overflow", s)
  ELSE Ret("Ok", [s EXCEPT !.info =
                    {[The(s.info) EXCEPT !.total_supply = @ - amount]}])

\* a mint that does not ask who the sender is
execute_mint_by_anyone(s, sender, recipient, amount) ==
  IF amount = 0 THEN Ret("InvalidZeroAmount", s)
  ELSE IF s.info = {} THEN Ret("NotFound", s)
  ELSE LET config == The(s.info) IN
    IF config.mint = {} THEN Ret("Unauthorized", s)
    ELSE IF config.total_supply + amount > MaxU128 THEN Ret("Panic", s)
    ELSE IF get_cap(config.mint) # {}
            /\ config.total_supply + amount > The(get_cap(config.mint))
      THEN Ret("CannotExceedCap", s)
    ELSE LET s1 == [s EXCEPT !.info =
                      {[config EXCEPT !.total_supply = @ + amount]}]
             c == credit(s1, recipient, amount) IN
         IF c.res = "Panic" THEN Ret("Panic", s) ELSE c

\* cw20_base::contract::execute_mint
execute_mint(s, sender, recipient, amount) ==
  IF amount = 0 THEN Ret("InvalidZeroAmount", s)
  ELSE IF s.info = {} THEN Ret("NotFound", s)
  ELSE LET config == The(s.info) IN
    IF config.mint = {} \/ The(config.mint).minter # sender THEN Ret("Unauthorized", s)
    ELSE IF config.total_supply + amount > MaxU128 THEN Ret("Panic", s)
    ELSE IF get_cap(config.mint) # {}
            /\ config.total_supply + amount > The(get_cap(config.mint))
      THEN Ret("CannotExceedCap", s)
    ELSE LET s1 == [s EXCEPT !.info =
                      {[config EXCEPT !.total_supply = @ + amount]}]
             c == credit(s1, recipient, amount) IN
         IF c.res = "Panic" THEN Ret("Panic", s) ELSE c

\* a transfer that debits the sender and credits nobody
execute_transfer_without_credit(s, sender, recipient, amount) ==
  IF amount = 0 THEN Ret("InvalidZeroAmount", s)
  ELSE debit(s, sender, amount)

\* cw20_base::contract::execute_transfer (execute_send moves balances the same way
\* and adds the receive message to the response)
execute_transfer(s, sender, recipient, amount) ==
  IF amount = 0 THEN Ret("InvalidZeroAmount", s)
  ELSE LET d == debit(s, sender, amount) IN
    IF d.res # "Ok" THEN d
    ELSE LET c == credit(d.st, recipient, amount) IN
         IF c.res = "Panic" THEN Ret("Panic", s) ELSE c

execute_send(s, sender, contract, amount) == execute_transfer(s, sender, contract, amount)

\* a burn that debits the sender and leaves the total supply as it was
execute_burn_keeping_supply(s, sender, amount) ==
  IF amount = 0 THEN Ret("InvalidZeroAmount", s)
  ELSE debit(s, sender, amount)

\* cw20_base::contract::execute_burn
execute_burn(s, sender, amount) ==
  IF amount = 0 THEN Ret("InvalidZeroAmount", s)
  ELSE LET d == debit(s, sender, amount) IN
    IF d.res # "Ok" THEN d ELSE reduce_supply(d.st, amount)

\* cw20_base::allowances::execute_transfer_from (execute_send_from moves balances the
\* same way and adds the receive message to the response)
execute_transfer_from(s, sender, owner, recipient, amount) ==
  LET a == deduct_allowance(s, owner, sender, amount) IN
    IF a.res # "Ok" THEN a
    ELSE LET d == debit(a.st, owner, amount) IN
      IF d.res # "Ok" THEN d
      ELSE LET c == credit(d.st, recipient, amount) IN
           IF c.res = "Panic" THEN Ret("Panic", s) ELSE c

execute_send_from(s, sender, owner, contract, amount) ==
  execute_transfer_from(s, sender, owner, contract, amount)

\* cw20_base::allowances::execute_burn_from
execute_burn_from(s, sender, owner, amount) ==
  LET a == deduct_allowance(s, owner, sender, amount) IN
    IF a.res # "Ok" THEN a
    ELSE LET d == debit(a.st, owner, amount) IN
      IF d.res # "Ok" THEN d ELSE reduce_supply(d.st, amount)

\* cw20_base::allowances::execute_increase_allowance
execute_increase_allowance(s, sender, spender, amount) ==
  IF spender = sender THEN Ret("CannotSetOwnAccount", s)
  ELSE IF LoadOr(s.allow, <<sender, spender>>, 0) + amount > MaxU128 THEN Ret("Panic", s)
  ELSE Ret("Ok", [s EXCEPT !.allow =
                    Save(s.allow, <<sender, spender>>,
                         LoadOr(s.allow, <<sender, spender>>, 0) + amount)])

\* cw20_base::allowances::execute_decrease_allowance
execute_decrease_allowance(s, sender, spender, amount) ==
  IF spender = sender THEN Ret("CannotSetOwnAccount", s)
  ELSE IF ~Has(s.allow, <<sender, spender>>) THEN Ret("NotFound", s)
  ELSE IF amount < s.allow[<<sender, spender>>]
    THEN Ret("Ok", [s EXCEPT !.allow =
                      Save(s.allow, <<sender, spender>>, s.allow[<<sender, spender>>] - amount)])
    ELSE Ret("Ok", [s EXCEPT !.allow = Remove(s.allow, <<sender, spender>>)])

----------------------------------------------------------------------------
(* The contract's execute handlers (contract.rs) *)

\* the guard with the frozen amount left out of the subtraction
frozen_guard_without_frozen(s, sender, amount) ==
  IF ~Has(s.bal, sender) THEN "NotFound"
  ELSE IF s.bal[sender] < amount THEN "BalanceFrozen"
  ELSE "Ok"

\* the guard at the head of transfer, send, burn, transfer_from, burn_from and
\* send_from: BALANCES.load(sender)?, FROZEN_BALANCES.load(sender).unwrap_or(0),
\* then (balance - frozen_balance) < amount; the subtraction aborts on underflow
frozen_guard(s, sender, amount) ==
  IF ~Has(s.bal, sender) THEN "NotFound"
  ELSE IF LoadOr(s.frozen, sender, 0) > s.bal[sender] THEN "Panic"
  ELSE IF s.bal[sender] - LoadOr(s.frozen, sender, 0) < amount THEN "BalanceFrozen"
  ELSE "Ok"

\* the cap check of transfer and transfer_from: the recipient's balance, zero when
\* absent, plus amount against BALANCE_CAP; the addition aborts on overflow
cap_guard(s, recipient, amount) ==
  IF s.cap = {} THEN "NotFound"
  ELSE IF LoadOr(s.bal, recipient, 0) + amount > MaxU128 THEN "Panic"
  ELSE IF LoadOr(s.bal, recipient, 0) + amount > The(s.cap) THEN "CannotExceedCap"
  ELSE "Ok"

\* a mint that lifts the cap to the recipient's new balance instead of refusing
mint_lifting_cap(s, sender, recipient, amount) ==
  IF ~Has(s.bal, recipient) THEN Ret("NotFound", s)
  ELSE IF s.cap = {} THEN Ret("NotFound", s)
  ELSE IF s.bal[recipient] + amount > MaxU128 THEN Ret("Panic", s)
  ELSE IF s.bal[recipient] + amount > The(s.cap)
    THEN execute_mint([s EXCEPT !.cap = {s.bal[recipient] + amount}],
                      sender, recipient, amount)
  ELSE execute_mint(s, sender, recipient, amount)

\* contract.rs mint: BALANCES.load(recipient)? fails when the recipient has no entry
mint(s, sender, recipient, amount) ==
  IF ~Has(s.bal, recipient) THEN Ret("NotFound", s)
  ELSE IF s.cap = {} THEN Ret("NotFound", s)
  ELSE IF s.bal[recipient] + amount > MaxU128 THEN Ret("Panic", s)
  ELSE IF s.bal[recipient] + amount > The(s.cap) THEN Ret("CannotExceedCap", s)
  ELSE execute_mint(s, sender, recipient, amount)

\* contract.rs transfer
transfer(s, sender, recipient, amount) ==
  IF frozen_guard(s, sender, amount) # "Ok" THEN Ret(frozen_guard(s, sender, amount), s)
  ELSE IF cap_guard(s, recipient, amount) # "Ok" THEN Ret(cap_guard(s, recipient, amount), s)
  ELSE execute_transfer(s, sender, recipient, amount)

\* contract.rs send
send(s, sender, contract, amount) ==
  IF frozen_guard(s, sender, amount) # "Ok" THEN Ret(frozen_guard(s, sender, amount), s)
  ELSE execute_send(s, sender, contract, amount)

\* contract.rs burn
burn(s, sender, amount) ==
  IF frozen_guard(s, sender, amount) # "Ok" THEN Ret(frozen_guard(s, sender, amount), s)
  ELSE execute_burn(s, sender, amount)

\* contract.rs transfer_from
transfer_from(s, sender, owner, recipient, amount) ==
  IF frozen_guard(s, sender, amount) # "Ok" THEN Ret(frozen_guard(s, sender, amount), s)
  ELSE IF cap_guard(s, recipient, amount) # "Ok" THEN Ret(cap_guard(s, recipient, amount), s)
  ELSE execute_transfer_from(s, sender, owner, recipient, amount)

\* contract.rs burn_from
burn_from(s, sender, owner, amount) ==
  IF frozen_guard(s, sender, amount) # "Ok" THEN Ret(frozen_guard(s, sender, amount), s)
  ELSE execute_burn_from(s, sender, owner, amount)

\* contract.rs send_from
send_from(s, sender, owner, contract, amount) ==
  IF frozen_guard(s, sender, amount) # "Ok" THEN Ret(frozen_guard(s, sender, amount), s)
  ELSE execute_send_from(s, sender, owner, contract, amount)

\* an update_frozen_list whose Add wraps around the largest amount and whose Sub
\* stops at zero
update_frozen_list_unchecked(s, ut) ==
  CASE ut.kind = "Add" ->
         Ret("Ok", [s EXCEPT !.frozen =
                      Save(s.frozen, ut.address,
                           (LoadOr(s.frozen, ut.address, 0) + ut.amount) % (MaxU128 + 1))])
    [] ut.kind = "Sub" ->
         Ret("Ok", [s EXCEPT !.frozen =
                      Save(s.frozen, ut.address,
                           IF ut.amount > LoadOr(s.frozen, ut.address, 0) THEN 0
                           ELSE LoadOr(s.frozen, ut.address, 0) - ut.amount)])
    [] ut.kind = "Discard" ->
         Ret("Ok", [s EXCEPT !.frozen = Remove(s.frozen, ut.address)])

\* an update_frozen_list whose Discard releases only what the balance covers
update_frozen_list_keeping_excess(s, ut) ==
  CASE ut.kind = "Add" ->
         IF LoadOr(s.frozen, ut.address, 0) + ut.amount > MaxU128
           THEN Ret("Overflow", s)
           ELSE Ret("Ok", [s EXCEPT !.frozen =
                             Save(s.frozen, ut.address,
                                  LoadOr(s.frozen, ut.address, 0) + ut.amount)])
    [] ut.kind = "Sub" ->
         IF ut.amount > LoadOr(s.frozen, ut.address, 0)
           THEN Ret("Overflow", s)
           ELSE Ret("Ok", [s EXCEPT !.frozen =
                             Save(s.frozen, ut.address,
                                  LoadOr(s.frozen, ut.address, 0) - ut.amount)])
    [] ut.kind = "Discard" ->
         IF LoadOr(s.frozen, ut.address, 0) > LoadOr(s.bal, ut.address, 0)
           THEN Ret("Ok", [s EXCEPT !.frozen =
                             Save(s.frozen, ut.address,
                                  LoadOr(s.frozen, ut.address, 0)
                                    - LoadOr(s.bal, ut.address, 0))])
           ELSE Ret("Ok", [s EXCEPT !.frozen = Remove(s.frozen, ut.address)])

\* contract.rs update_frozen_list: ut is [kind, address, amount]
update_frozen_list(s, ut) ==
  CASE ut.kind = "Add" ->
         IF LoadOr(s.frozen, ut.address, 0) + ut.amount > MaxU128 THEN Ret("Overflow", s)
         ELSE Ret("Ok", [s EXCEPT !.frozen =
                           Save(s.frozen, ut.address, LoadOr(s.frozen, ut.address, 0) + ut.amount)])
    [] ut.kind = "Sub" ->
         IF ut.amount > LoadOr(s.frozen, ut.address, 0) THEN Ret("Overflow", s)
         ELSE Ret("Ok", [s EXCEPT !.frozen =
                           Save(s.frozen, ut.address, LoadOr(s.frozen, ut.address, 0) - ut.amount)])
    [] ut.kind = "Discard" ->
         Ret("Ok", [s EXCEPT !.frozen = Remove(s.frozen, ut.address)])

\* an UpdateFrozenList that acts on the frozen balance of its caller
execute_UpdateFrozenList_on_caller(s, sender, ut) ==
  update_frozen_list(s, [ut EXCEPT !.address = sender])

\* contract.rs execute, arm Execute::UpdateFrozenList: info is not handed on
execute_UpdateFrozenList(s, sender, ut) == update_frozen_list(s, ut)

\* contract.rs query_frozen_balance
query_frozen_balance(s, address) == LoadOr(s.frozen, address, 0)

\* cw20_base::contract::query_balance
query_balance(s, address) == LoadOr(s.bal, address, 0)

----------------------------------------------------------------------------
(* Inputs *)

\* the accounts that grant allowances, and the spenders they name
Owners == {"a1"}

Spenders == {"a1", "a2"}

\* the accounts whose frozen balance UpdateFrozenList is asked to change
FrozenTargets == {"a1", "a2"}

Coins == [address : Addr, amount : U128]

FrozenCoins == [address : FrozenTargets, amount : U128]

SeqsUpTo(S, n) == UNION {[1..k -> S] : k \in 0..n}

\* name length, symbol bytes ("AUTO", "A1B"), decimals
ValidHeader == [name_len |-> 8, symbol |-> <<65, 85, 84, 79>>, decimals |-> 3]

InvalidHeaders ==
  { [name_len |-> 2, symbol |-> <<65, 85, 84, 79>>, decimals |-> 3],
    [name_len |-> 8, symbol |-> <<65, 49, 66>>,     decimals |-> 3],
    [name_len |-> 8, symbol |-> <<65, 85, 84, 79>>, decimals |-> 19] }

\* no minter, a minter without a cap, a minter with a cap
MintOptions ==
  {{}} \cup {{[minter |-> "a1", cap |-> c]} : c \in {{}, {MaxU128 - 1}}}

\* the balance caps a contract is created with: below and at the largest amount
BalCaps == {MaxU128 - 1, MaxU128}

InstantiateMsg(h, ib, fb, bc, mo) ==
  [name_len |-> h.name_len, symbol |-> h.symbol, decimals |-> h.decimals,
   initial_balances |-> ib, frozen_balances |-> fb, bal_cap |-> bc, mint |-> mo]

\* the UpdateType values update_frozen_list matches on: Add(coin), Sub(coin),
\* Discard(address)
UpdateTypesOf(addrs) ==
  [kind : {"Add", "Sub"}, address : addrs, amount : U128]
    \cup [kind : {"Discard"}, address : addrs, amount : {0}]

UpdateTypes == UpdateTypesOf(FrozenTargets)

----------------------------------------------------------------------------
(* Actions *)

\* a runtime that keeps whatever a call wrote, whatever it returns
CommitWhateverWasWritten(r) ==
  /\ BALANCES' = r.st.bal
  /\ FROZEN_BALANCES' = r.st.frozen
  /\ ALLOWANCES' = r.st.allow
  /\ TOKEN_INFO' = r.st.info
  /\ BALANCE_CAP' = r.st.cap
  /\ WHITELIST' = r.st.white
  /\ BURNLIST' = r.st.burn
  /\ resource_id_to_token_contract_address' = r.st.reg

\* The hosting runtime runs an entry point as one transaction: the storage a
\* call wrote is kept when the call returns Ok and discarded when it returns
\* an error or aborts.
Commit(r) ==
  IF r.res = "Ok"
    THEN /\ BALANCES' = r.st.bal
         /\ FROZEN_BALANCES' = r.st.frozen
         /\ ALLOWANCES' = r.st.allow
         /\ TOKEN_INFO' = r.st.info
         /\ BALANCE_CAP' = r.st.cap
         /\ WHITELIST' = r.st.white
         /\ BURNLIST' = r.st.burn
         /\ resource_id_to_token_contract_address' = r.st.reg
    ELSE UNCHANGED storeVars

Init ==
  /\ phase = "none"
  /\ BALANCES = EmptyMap
  /\ FROZEN_BALANCES = EmptyMap
  /\ ALLOWANCES = EmptyMap
  /\ TOKEN_INFO = {}
  /\ BALANCE_CAP = {}
  /\ WHITELIST = EmptyMap
  /\ BURNLIST = EmptyMap
  /\ resource_id_to_token_contract_address = EmptyMap
  /\ registered = [ids |-> {}, addrs |-> {}, white |-> {}, burn |-> {}]

Live == phase = "live"

\* a message with a valid header and any lists, or one with an invalid header
Instantiate ==
  /\ phase = "none"
  /\ \E h \in {ValidHeader} \cup InvalidHeaders, mo \in MintOptions, bc \in BalCaps :
       \E ib \in IF h = ValidHeader THEN SeqsUpTo(Coins, MaxInitLen) ELSE {<<>>},
          fb \in IF h = ValidHeader THEN SeqsUpTo(FrozenCoins, MaxFrozenLen) ELSE {<<>>} :
         LET r == instantiate(Store, InstantiateMsg(h, ib, fb, bc, mo)) IN
           /\ Commit(r)
           /\ phase' = IF r.res = "Ok" THEN "live" ELSE "none"
           /\ UNCHANGED registered

Mint ==
  /\ Live /\ UNCHANGED <<phase, registered>>
  /\ \E sender \in Addr, recipient \in Addr, amount \in U128 :
       Commit(mint(Store, sender, recipient, amount))

Transfer ==
  /\ Live /\ UNCHANGED <<phase, registered>>
  /\ \E sender \in Addr, recipient \in Addr, amount \in U128 :
       Commit(transfer(Store, sender, recipient, amount))

Send ==
  /\ Live /\ UNCHANGED <<phase, registered>>
  /\ \E sender \in Addr, contract \in Addr, amount \in U128 :
       Commit(send(Store, sender, contract, amount))

Burn ==
  /\ Live /\ UNCHANGED <<phase, registered>>
  /\ \E sender \in Addr, amount \in U128 :
       Commit(burn(Store, sender, amount))

IncreaseAllowance ==
  /\ Live /\ UNCHANGED <<phase, registered>>
  /\ \E sender \in Owners, spender \in Spenders, amount \in U128 :
       Commit(execute_increase_allowance(Store, sender, spender, amount))

DecreaseAllowance ==
  /\ Live /\ UNCHANGED <<phase, registered>>
  /\ \E sender \in Owners, spender \in Spenders, amount \in U128 :
       Commit(execute_decrease_allowance(Store, sender, spender, amount))

TransferFrom ==
  /\ Live /\ UNCHANGED <<phase, registered>>
  /\ \E sender \in Addr, owner \in Owners, recipient \in Addr, amount \in U128 :
       Commit(transfer_from(Store, sender, owner, recipient, amount))

BurnFrom ==
  /\ Live /\ UNCHANGED <<phase, registered>>
  /\ \E sender \in Addr, owner \in Owners, amount \in U128 :
       Commit(burn_from(Store, sender, owner, amount))

SendFrom ==
  /\ Live /\ UNCHANGED <<phase, registered>>
  /\ \E sender \in Addr, owner \in Owners, contract \in Addr, amount \in U128 :
       Commit(send_from(Store, sender, owner, contract, amount))

UpdateFrozenList ==
  /\ Live /\ UNCHANGED <<phase, registered>>
  /\ \E sender \in Addr, ut \in UpdateTypes :
       Commit(execute_UpdateFrozenList(Store, sender, ut))

Next ==
  \/ Instantiate
  \/ Mint
  \/ Transfer
  \/ Send
  \/ Burn
  \/ IncreaseAllowance
  \/ DecreaseAllowance
  \/ TransferFrom
  \/ BurnFrom
  \/ SendFrom
  \/ UpdateFrozenList

Spec == Init /\ [][Next]_vars

----------------------------------------------------------------------------
(* The token created from one message shape: two funded accounts, no frozen
   balances, either cap, with or without a minter; then every execute message *)

GuardMsgs ==
  {InstantiateMsg(ValidHeader, ib, <<>>, bc, mo) :
     ib \in {<<[address |-> "a1", amount |-> 1], [address |-> "a2", amount |-> 1]>>},
     bc \in BalCaps,
     mo \in {{}, {[minter |-> "a1", cap |-> {}]}}}

GuardInstantiate ==
  /\ phase = "none"
  /\ \E msg \in GuardMsgs :
       LET r == instantiate(Store, msg) IN
         /\ Commit(r)
         /\ phase' = IF r.res = "Ok" THEN "live" ELSE "none"
         /\ UNCHANGED registered

GuardNext ==
  \/ GuardInstantiate
  \/ Mint
  \/ Transfer
  \/ Send
  \/ Burn
  \/ IncreaseAllowance
  \/ DecreaseAllowance
  \/ TransferFrom
  \/ BurnFrom
  \/ SendFrom
  \/ UpdateFrozenList

GuardSpec == Init /\ [][GuardNext]_vars

----------------------------------------------------------------------------
(* The bridge token: authorization lists and resource registry (lib.rs, state.rs) *)

\* the resource ids of the model
ResourceIds == {1, 2}

\* the Uint64 values whose decimal text is one of the model's strings, and zero
U64 == 0..3

Digit(d) ==
  CASE d = 0 -> "0" [] d = 1 -> "1" [] d = 2 -> "2" [] d = 3 -> "3" [] d = 4 -> "4"
    [] d = 5 -> "5" [] d = 6 -> "6" [] d = 7 -> "7" [] d = 8 -> "8" [] d = 9 -> "9"

RECURSIVE to_string(_)
\* Uint64::to_string: the decimal text of the number
to_string(n) ==
  IF n < 10 THEN Digit(n) ELSE to_string(n \div 10) \o Digit(n % 10)

\* u64 from decimal text, as the deserializer of Uint64 parses it: None when the
\* text is not a number
from_str(text) == {n \in U64 : to_string(n) = text}

\* a String and a Uint64 are both stored as a JSON string
to_vec(text) == [json |-> "string", text |-> text]

\* an add_to_list that takes a member off the list again
add_to_list_toggling(s, address, list_type) ==
  CASE list_type = "WhiteList" ->
         Ret("Ok", [s EXCEPT !.white = Save(s.white, address, ~LoadOr(s.white, address, FALSE))])
    [] list_type = "BurnList" ->
         Ret("Ok", [s EXCEPT !.burn = Save(s.burn, address, ~LoadOr(s.burn, address, FALSE))])

\* an add_to_list that enters the address in both lists
add_to_list_on_both_lists(s, address, list_type) ==
  Ret("Ok", [s EXCEPT !.white = Save(s.white, address, TRUE),
                      !.burn = Save(s.burn, address, TRUE)])

\* an add_to_list that starts the list afresh with the one address
add_to_list_forgetting_members(s, address, list_type) ==
  CASE list_type = "WhiteList" ->
         Ret("Ok", [s EXCEPT !.white = Save(EmptyMap, address, TRUE)])
    [] list_type = "BurnList" ->
         Ret("Ok", [s EXCEPT !.burn = Save(EmptyMap, address, TRUE)])

\* lib.rs add_to_list
add_to_list(s, address, list_type) ==
  CASE list_type = "WhiteList" ->
         Ret("Ok", [s EXCEPT !.white = Save(s.white, address, TRUE)])
    [] list_type = "BurnList" ->
         Ret("Ok", [s EXCEPT !.burn = Save(s.burn, address, TRUE)])

\* lib.rs set_resource_id: the forward entry under the text of the id, then the
\* reverse entry under the address, both in the one namespace state.rs gives them
set_resource_id(s, resource_id, address) ==
  LET forward == Save(s.reg, to_string(resource_id), to_vec(address))
      reverse == Save(forward, address, to_vec(to_string(resource_id))) IN
    Ret("Ok", [s EXCEPT !.reg = reverse])

\* RESOURCE_ID_TO_TOKEN_CONTRACT_ADDRESS.load(storage, &resource_id.to_string())
RESOURCE_ID_TO_TOKEN_CONTRACT_ADDRESS(s, resource_id) ==
  IF ~Has(s.reg, to_string(resource_id)) THEN [res |-> "NotFound"]
  ELSE [res |-> "Ok", val |-> s.reg[to_string(resource_id)].text]

\* TOKEN_CONTRACT_ADDRESS_TO_RESOURCE_ID.load(storage, &address)
TOKEN_CONTRACT_ADDRESS_TO_RESOURCE_ID(s, address) ==
  IF ~Has(s.reg, address) THEN [res |-> "NotFound"]
  ELSE IF from_str(s.reg[address].text) = {} THEN [res |-> "ParseErr"]
  ELSE [res |-> "Ok", val |-> The(from_str(s.reg[address].text))]

\* Execute::WhiteList, Execute::BurnList and Execute::SetResourceId as execute hands
\* them on: add_to_list and set_resource_id take no MessageInfo, and the calls of
\* tests.rs succeed for the sender genesis, which is neither the minter nor the
\* account that instantiated
execute_WhiteList(s, sender, address) == add_to_list(s, address, "WhiteList")

execute_BurnList(s, sender, address) == add_to_list(s, address, "BurnList")

execute_SetResourceId(s, sender, resource_id, address) ==
  set_resource_id(s, resource_id, address)

\* WHITELIST.load(storage, &address) / BURNLIST.load(storage, &address) is Ok(true)
is_member(list, address) == Has(list, address) /\ list[address]

----------------------------------------------------------------------------
(* Payload codec (data.rs, tests.rs) *)

RECURSIVE BytesOf(_, _)
\* the k low-order bytes of n, most significant first
BytesOf(n, k) ==
  IF k = 0 THEN <<>> ELSE Append(BytesOf(n \div 256, k - 1), n % 256)

\* u128::to_be_bytes
to_be_bytes(n) == BytesOf(n, 16)

Reverse(seq) == [i \in 1..Len(seq) |-> seq[Len(seq) + 1 - i]]

\* u128::to_le_bytes, the encoding of a u128 field
to_le_bytes(n) == Reverse(to_be_bytes(n))

RECURSIVE ValueOf(_, _)
\* the number whose bytes, most significant first, are the first k bytes of b
ValueOf(b, k) ==
  IF k = 0 THEN 0 ELSE ValueOf(b, k - 1) * 256 + b[k]

\* u128::from_be_bytes
from_be_bytes(b) == ValueOf(b, Len(b))

\* the strings that occur in payloads
Strings == {"a1", "a2", "a3", "1", "2", "3"}

\* the UTF-8 bytes of a string
as_bytes(str) ==
  CASE str = "a1" -> <<97, 49>> [] str = "a2" -> <<97, 50>> [] str = "a3" -> <<97, 51>>
    [] str = "1" -> <<49>> [] str = "2" -> <<50>> [] str = "3" -> <<51>>

\* String::from_utf8, over the strings that occur in payloads
from_utf8(bytes) == {str \in Strings : as_bytes(str) = bytes}

\* the encoding of a String field: its length as a one-byte compact integer
\* (length * 4, for lengths below 64), then its bytes
encode_string(str) == <<4 * Len(as_bytes(str))>> \o as_bytes(str)

\* the decoding of a String field at the head of data: None, or Some of the string
\* and the bytes after it
decode_string(data) ==
  IF data = <<>> THEN {}
  ELSE IF data[1] % 4 # 0 \/ Len(data) < 1 + data[1] \div 4 THEN {}
  ELSE LET n == data[1] \div 4 IN
    {[val |-> str, rest |-> SubSeq(data, n + 2, Len(data))] :
       str \in from_utf8(SubSeq(data, 2, n + 1))}

\* ProposalData::encode: amount, recipient_address
ProposalData_encode(p) == to_le_bytes(p.amount) \o encode_string(p.recipient_address)

\* WithdrawData::encode: token_address, recipient_address, amount
WithdrawData_encode(w) ==
  encode_string(w.token_address) \o encode_string(w.recipient_address)
    \o to_le_bytes(w.amount)

\* the deposit amount is exactly 16 bytes, big-endian
decode_deposit_amount(data) ==
  IF Len(data) # 16 THEN {} ELSE {from_be_bytes(data)}

\* ProposalData::decode, with nothing left over
decode_proposal(data) ==
  IF Len(data) < 16 THEN {}
  ELSE {[amount |-> from_be_bytes(Reverse(SubSeq(data, 1, 16))),
         recipient_address |-> r.val] :
          r \in {x \in decode_string(SubSeq(data, 17, Len(data))) : x.rest = <<>>}}

\* a decoder that reads recipient_address first and token_address second
decode_withdraw_recipient_first(data) ==
  UNION {UNION {IF Len(r.rest) # 16 THEN {}
                ELSE {[token_address |-> r.val, recipient_address |-> tk.val,
                       amount |-> from_be_bytes(Reverse(r.rest))]} :
                  r \in decode_string(tk.rest)} :
           tk \in decode_string(data)}

\* WithdrawData::decode, with nothing left over
decode_withdraw(data) ==
  UNION {UNION {IF Len(r.rest) # 16 THEN {}
                ELSE {[token_address |-> tk.val, recipient_address |-> r.val,
                       amount |-> from_be_bytes(Reverse(r.rest))]} :
                  r \in decode_string(tk.rest)} :
           tk \in decode_string(data)}

----------------------------------------------------------------------------
(* The bridge state machine: Deposit, Proposal, Withdraw *)

\* instantiate of the bridge token: the Instantiate of msg.rs has no bal_cap and no
\* frozen_balances
instantiate_bridge(s, msg) ==
  IF validate(msg) # "Ok" THEN Ret(validate(msg), s)
  ELSE IF SumAmounts(msg.initial_balances) > MaxU128 THEN Ret("Panic", s)
  ELSE IF get_cap(msg.mint) # {}
          /\ SumAmounts(msg.initial_balances) > The(get_cap(msg.mint))
    THEN Ret("GenericErr", [s EXCEPT !.bal = SaveAll(s.bal, msg.initial_balances)])
  ELSE Ret("Ok", [s EXCEPT !.bal = SaveAll(s.bal, msg.initial_balances),
                           !.info = {[total_supply |-> SumAmounts(msg.initial_balances),
                                      mint |-> msg.mint]}])

\* Deposit: decode, resolve, require the whitelist, then burn or transfer
deposit(s, sender, resource_id, data) ==
  LET decoded == decode_deposit_amount(data)
      amount == The(decoded)
      token_addr == RESOURCE_ID_TO_TOKEN_CONTRACT_ADDRESS(s, resource_id) IN
    IF decoded = {} THEN Ret("DecodeError", s)
    ELSE IF token_addr.res # "Ok" THEN Ret("MissingResourceMapping", s)
    ELSE IF ~is_member(s.white, token_addr.val) THEN Ret("AddressNotWhitelisted", s)
    ELSE IF is_member(s.burn, token_addr.val) THEN execute_burn(s, sender, amount)
    ELSE execute_transfer(s, sender, token_addr.val, amount)

\* Proposal: decode, resolve, require the whitelist, then mint to the payload's
\* recipient or transfer from the caller to the resolved address
proposal(s, sender, resource_id, data) ==
  LET decoded == decode_proposal(data)
      payload == The(decoded)
      token_addr == RESOURCE_ID_TO_TOKEN_CONTRACT_ADDRESS(s, resource_id) IN
    IF decoded = {} THEN Ret("InvalidProposalData", s)
    ELSE IF token_addr.res # "Ok" THEN Ret("MissingResourceMapping", s)
    ELSE IF ~is_member(s.white, token_addr.val) THEN Ret("AddressNotWhitelisted", s)
    ELSE IF is_member(s.burn, token_addr.val)
      THEN execute_mint(s, sender, payload.recipient_address, payload.amount)
    ELSE execute_transfer(s, sender, token_addr.val, payload.amount)

\* Withdraw: decode, then transfer from the caller to the payload's token address
withdraw(s, sender, data) ==
  LET decoded == decode_withdraw(data)
      payload == The(decoded) IN
    IF decoded = {} THEN Ret("InvalidWithdrawData", s)
    ELSE execute_transfer(s, sender, payload.token_address, payload.amount)

----------------------------------------------------------------------------
(* Inputs and actions of the bridge token *)

\* the accounts that send bridge messages
BridgeCallers == {"a1", "a2"}

\* the addresses registered and listed: an account, and one whose text is the
\* decimal text of a resource id
RegistryAddrs == {"a1", "2"}

BridgeMsgs ==
  {InstantiateMsg(ValidHeader, ib, <<>>, MaxU128, mo) :
     ib \in {<<[address |-> "a1", amount |-> 1], [address |-> "a2", amount |-> 1]>>},
     mo \in {{}, {[minter |-> "a1", cap |-> {}]}}}

\* 16-byte amounts, and one of 15 bytes
DepositPayloads == {to_be_bytes(n) : n \in U128} \cup {Tail(to_be_bytes(1))}

\* encoded proposals, and one cut short
ProposalPayloads ==
  {ProposalData_encode([amount |-> n, recipient_address |-> r]) :
     n \in U128, r \in BridgeCallers}
    \cup {SubSeq(ProposalData_encode([amount |-> 1, recipient_address |-> "a1"]), 1, 17)}

\* encoded withdrawals, and one cut short
WithdrawPayloads ==
  {WithdrawData_encode([token_address |-> tk, recipient_address |-> r, amount |-> n]) :
     tk \in BridgeCallers, r \in {"a1"}, n \in U128}
    \cup {Tail(WithdrawData_encode(
             [token_address |-> "a1", recipient_address |-> "a1", amount |-> 1]))}

BridgeInstantiate ==
  /\ phase = "none"
  /\ \E msg \in BridgeMsgs :
       LET r == instantiate_bridge(Store, msg) IN
         /\ Commit(r)
         /\ phase' = IF r.res = "Ok" THEN "live" ELSE "none"
         /\ UNCHANGED registered

WhiteListOf(addresses) ==
  /\ Live /\ UNCHANGED phase
  /\ \E sender \in BridgeCallers, address \in addresses :
       LET r == execute_WhiteList(Store, sender, address) IN
         /\ Commit(r)
         /\ registered' = IF r.res = "Ok"
                            THEN [registered EXCEPT !.white = @ \cup {address}]
                            ELSE registered

BurnListOf(addresses) ==
  /\ Live /\ UNCHANGED phase
  /\ \E sender \in BridgeCallers, address \in addresses :
       LET r == execute_BurnList(Store, sender, address) IN
         /\ Commit(r)
         /\ registered' = IF r.res = "Ok"
                            THEN [registered EXCEPT !.burn = @ \cup {address}]
                            ELSE registered

SetResourceIdOf(addresses) ==
  /\ Live /\ UNCHANGED phase
  /\ \E sender \in BridgeCallers, resource_id \in ResourceIds, address \in addresses :
       LET r == execute_SetResourceId(Store, sender, resource_id, address) IN
         /\ Commit(r)
         /\ registered' = IF r.res = "Ok"
                            THEN [registered EXCEPT
                                    !.ids = @ \cup {resource_id},
                                    !.addrs = @ \cup {address}]
                            ELSE registered

WhiteList == WhiteListOf(RegistryAddrs)

BurnList == BurnListOf(RegistryAddrs)

SetResourceId == SetResourceIdOf(RegistryAddrs)

Deposit ==
  /\ Live /\ UNCHANGED <<phase, registered>>
  /\ \E sender \in BridgeCallers, resource_id \in ResourceIds, data \in DepositPayloads :
       Commit(deposit(Store, sender, resource_id, data))

Proposal ==
  /\ Live /\ UNCHANGED <<phase, registered>>
  /\ \E sender \in BridgeCallers, resource_id \in ResourceIds, data \in ProposalPayloads :
       Commit(proposal(Store, sender, resource_id, data))

Withdraw ==
  /\ Live /\ UNCHANGED <<phase, registered>>
  /\ \E sender \in BridgeCallers, data \in WithdrawPayloads :
       Commit(withdraw(Store, sender, data))

BridgeMint ==
  /\ Live /\ UNCHANGED <<phase, registered>>
  /\ \E sender \in BridgeCallers, recipient \in BridgeCallers, amount \in U128 :
       Commit(execute_mint(Store, sender, recipient, amount))

BridgeNext ==
  \/ BridgeInstantiate
  \/ WhiteList
  \/ BurnList
  \/ SetResourceId
  \/ Deposit
  \/ Proposal
  \/ Withdraw
  \/ BridgeMint

BridgeSpec == Init /\ [][BridgeNext]_vars

\* the bridge with the resource ids registered for one address and the lists
\* holding addresses whose text is the decimal text of a resource id
OrderRegistryAddrs == {"2"}

OrderListAddrs == {"1", "2"}

OrderWhiteList == WhiteListOf(OrderListAddrs)

OrderBurnList == BurnListOf(OrderListAddrs)

OrderSetResourceId == SetResourceIdOf(OrderRegistryAddrs)

OrderNext ==
  \/ BridgeInstantiate
  \/ OrderWhiteList
  \/ OrderBurnList
  \/ OrderSetResourceId
  \/ Deposit
  \/ Proposal

OrderSpec == Init /\ [][OrderNext]_vars

----------------------------------------------------------------------------
(* Readings of the state and the calls the properties quantify over *)

total_supply_of(s) == The(s.info).total_supply

balance_cap_of(s) == The(s.cap)

RECURSIVE SumOver(_, _)
SumOver(m, keys) ==
  IF keys = {} THEN 0
  ELSE LET k == CHOOSE x \in keys : TRUE IN m[k] + SumOver(m, keys \ {k})

SumBalances(s) == SumOver(s.bal, DOMAIN s.bal)

\* the results of every spending call sender can issue with this amount
SpendCalls(s, sender, amount) ==
  {transfer(s, sender, r, amount) : r \in Addr}
    \cup {send(s, sender, c, amount) : c \in Addr}
    \cup {burn(s, sender, amount)}
    \cup {transfer_from(s, sender, o, r, amount) : o \in Addr, r \in Addr}
    \cup {burn_from(s, sender, o, amount) : o \in Addr}
    \cup {send_from(s, sender, o, c, amount) : o \in Addr, c \in Addr}

\* the results of every spending call with this amount, whoever issues it
AllSpendCalls(s, amount) == UNION {SpendCalls(s, sender, amount) : sender \in Addr}

----------------------------------------------------------------------------
(* C1 *)

\* C1: in every step of a live contract, no balance is negative and every account
\* whose balance the step raised holds at most balance_cap afterwards.
C1_CreditedWithinCap ==
  [][Live =>
       \A a \in Addr :
         /\ LoadOr(BALANCES', a, 0) >= 0
         /\ LoadOr(BALANCES', a, 0) > LoadOr(BALANCES, a, 0)
              => LoadOr(BALANCES', a, 0) <= The(BALANCE_CAP')]_vars

----------------------------------------------------------------------------
(* C2 *)

\* C2: in every live state, for every sender that holds a balance entry with
\* frozen[sender] >= balance[sender] and every amount > 0, each of transfer, send,
\* burn, transfer_from, burn_from and send_from issued by sender returns
\* BalanceFrozen (it neither aborts nor returns anything else).
C2_FrozenSenderGetsBalanceFrozen ==
  Live =>
    \A sender \in DOMAIN BALANCES, amount \in U128 \ {0} :
      query_frozen_balance(Store, sender) >= query_balance(Store, sender)
        => \A r \in SpendCalls(Store, sender, amount) : r.res = "BalanceFrozen"

----------------------------------------------------------------------------
(* C3 *)

\* the recipient stays within the cap when credited with amount
WithinCap(s, recipient, amount) ==
  query_balance(s, recipient) + amount <= balance_cap_of(s)

Discard(a) == [kind |-> "Discard", address |-> a, amount |-> 0]

\* the storage after A's successful transfer of a to R, followed by Discard(A)
AfterTransferAndDiscard(s, A, R, a) ==
  update_frozen_list(transfer(s, A, R, a).st, Discard(A)).st

----------------------------------------------------------------------------
(* C4 *)

\* C4: in every live state, whenever a transfer, send, burn, transfer_from,
\* burn_from or send_from succeeds and lowers the balance of an account A, the
\* balance of A after the call is at least frozen[A].
C4_FrozenPortionStays ==
  Live =>
    \A amount \in U128 :
      \A r \in AllSpendCalls(Store, amount) :
        r.res = "Ok" =>
          \A A \in Addr :
            query_balance(r.st, A) < query_balance(Store, A)
              => query_balance(r.st, A) >= query_frozen_balance(Store, A)

----------------------------------------------------------------------------
(* C5 *)

\* the results of transfer_from, burn_from and send_from by caller C against owner O
FromCalls(s, C, O, amount) ==
  {transfer_from(s, C, O, r, amount) : r \in Addr}
    \cup {burn_from(s, C, O, amount)}
    \cup {send_from(s, C, O, c, amount) : c \in Addr}

\* the storage with the balance and frozen entries of O set to b and f
WithAccount(s, O, b, f) ==
  [s EXCEPT !.bal = Save(s.bal, O, b), !.frozen = Save(s.frozen, O, f)]

\* C5: in every live state, transfer_from, burn_from and send_from by caller C
\* against owner O return BalanceFrozen whenever amount > balance[C] - frozen[C]
\* (absent entries of C counting as zero), and whether they return BalanceFrozen
\* is the same for every balance and frozen amount of an owner other than C.
C5_GuardOnCaller ==
  Live =>
    \A C \in Addr, O \in Addr, amount \in U128 :
      /\ amount > query_balance(Store, C) - query_frozen_balance(Store, C)
           => \A r \in FromCalls(Store, C, O, amount) : r.res = "BalanceFrozen"
      /\ O # C =>
           \A b \in U128, f \in U128 :
             (frozen_guard(WithAccount(Store, O, b, f), C, amount) = "BalanceFrozen")
               <=> (frozen_guard(Store, C, amount) = "BalanceFrozen")

----------------------------------------------------------------------------
(* C6 *)

\* the mint, transfer and transfer_from calls that credit recipient with amount and
\* pass the frozen guard (mint has none)
CappedCalls(s, recipient, amount) ==
  {mint(s, sender, recipient, amount) : sender \in Addr}
    \cup {transfer(s, sender, recipient, amount) :
            sender \in {x \in Addr : frozen_guard(s, x, amount) = "Ok"}}
    \cup {transfer_from(s, sender, o, recipient, amount) :
            sender \in {x \in Addr : frozen_guard(s, x, amount) = "Ok"}, o \in Addr}

\* C6: in every live state, a mint, transfer or transfer_from that passes the frozen
\* guard and whose recipient's balance (zero when absent) plus amount is above
\* balance_cap, the sum still being a Uint128, returns CannotExceedCap and leaves
\* the storage as it was.
C6_OverCapRejected ==
  Live =>
    \A recipient \in Addr, amount \in U128 :
      (/\ query_balance(Store, recipient) + amount > balance_cap_of(Store)
       /\ query_balance(Store, recipient) + amount <= MaxU128)
        => \A r \in CappedCalls(Store, recipient, amount) :
             r.res = "CannotExceedCap" /\ r.st = Store

----------------------------------------------------------------------------
(* C7 *)

\* the results of every execute call, for every caller and every argument
ExecuteCalls(s) ==
  UNION {AllSpendCalls(s, amount) : amount \in U128}
    \cup {mint(s, x, r, amount) : x \in Addr, r \in Addr, amount \in U128}
    \cup {execute_increase_allowance(s, x, y, amount) :
            x \in Addr, y \in Addr, amount \in U128}
    \cup {execute_decrease_allowance(s, x, y, amount) :
            x \in Addr, y \in Addr, amount \in U128}
    \cup {update_frozen_list(s, ut) : ut \in UpdateTypesOf(Addr)}

Yields(r, t) == r.res = "Ok" /\ r.st = t

\* some successful execute call on storage s returns storage t; the call is
\* looked for by what differs between s and t: only update_frozen_list writes
\* FROZEN_BALANCES, and of the others only mint, burn and burn_from write TOKEN_INFO
SomeCallYields(s, t) ==
  IF s.frozen # t.frozen
    THEN \E ut \in UpdateTypes : Yields(update_frozen_list(s, ut), t)
  ELSE IF s.info # t.info
    THEN \E x \in Addr, amount \in U128 :
           \/ Yields(burn(s, x, amount), t)
           \/ \E y \in Addr : Yields(mint(s, x, y, amount), t)
           \/ \E o \in Owners : Yields(burn_from(s, x, o, amount), t)
  ELSE \E x \in Addr, amount \in U128 :
         \/ \E y \in Addr :
              \/ Yields(transfer(s, x, y, amount), t)
              \/ Yields(send(s, x, y, amount), t)
              \/ \E o \in Owners :
                   \/ Yields(transfer_from(s, x, o, y, amount), t)
                   \/ Yields(send_from(s, x, o, y, amount), t)
         \/ \E o \in Owners : Yields(burn_from(s, x, o, amount), t)
         \/ /\ x \in Owners
            /\ \E y \in Spenders :
                 \/ Yields(execute_increase_allowance(s, x, y, amount), t)
                 \/ Yields(execute_decrease_allowance(s, x, y, amount), t)

----------------------------------------------------------------------------
(* C8 *)

\* C8: in every live state the sum of all account balances equals the stored total
\* supply.
C8_SupplyIsSumOfBalances ==
  Live => SumBalances(Store) = total_supply_of(Store)

----------------------------------------------------------------------------
(* C9 *)

\* C9: before the contract exists, for every Instantiate message with a valid
\* header: instantiate returns CannotExceedCap when an initial balance is above
\* bal_cap, else the generic error when the minter has a cap and the sum of the
\* initial balances is above it, else Ok, and then every listed account holds its
\* listed amount, every listed frozen balance is stored, the cap is stored and the
\* total supply is the sum of the listed amounts.
C9_InstantiateOutcome ==
  phase = "none" =>
    \A ib \in SeqsUpTo(Coins, MaxInitLen), fb \in SeqsUpTo(FrozenCoins, MaxFrozenLen),
       mo \in MintOptions, bc \in BalCaps :
      LET r == instantiate(Store, InstantiateMsg(ValidHeader, ib, fb, bc, mo)) IN
        IF \E i \in 1..Len(ib) : ib[i].amount > bc
          THEN r.res = "CannotExceedCap"
        ELSE IF get_cap(mo) # {} /\ SumAmounts(ib) > The(get_cap(mo))
          THEN r.res = "GenericErr"
        ELSE /\ r.res = "Ok"
             /\ \A i \in 1..Len(ib) :
                  Has(r.st.bal, ib[i].address) /\ r.st.bal[ib[i].address] = ib[i].amount
             /\ \A j \in 1..Len(fb) :
                  Has(r.st.frozen, fb[j].address)
                    /\ r.st.frozen[fb[j].address] = fb[j].amount
             /\ r.st.cap = {bc}
             /\ r.st.info # {}
             /\ total_supply_of(r.st) = SumAmounts(ib)

----------------------------------------------------------------------------
(* C10 *)

\* C10: in every live state, Mint by a caller that is not the configured minter
\* (any caller when none is configured) returns Unauthorized for every recipient
\* and every amount > 0, and leaves the balances and the total supply unchanged.
C10_OnlyMinterMints ==
  Live =>
    \A sender \in Addr, recipient \in Addr, amount \in U128 \ {0} :
      LET minter == The(TOKEN_INFO).mint
          r == mint(Store, sender, recipient, amount) IN
        (minter = {} \/ The(minter).minter # sender) =>
          /\ r.res = "Unauthorized"
          /\ r.st.bal = Store.bal
          /\ r.st.info = Store.info
----------------------------------------------------------------------------
(* C11 *)

\* C11: in every live state with a configured minter, Mint by the minter of an
\* amount > 0 to any recipient (with or without a balance entry) whose balance plus
\* amount is within balance_cap, the total supply plus amount being within the
\* minter's cap (if any) and within Uint128, returns Ok, raises the recipient's
\* balance and the total supply by amount and leaves every other balance as it was.
C11_MinterMints ==
  Live =>
    \A recipient \in Addr, amount \in U128 \ {0} :
      LET config == The(TOKEN_INFO) IN
        (/\ config.mint # {}
         /\ query_balance(Store, recipient) + amount <= balance_cap_of(Store)
         /\ config.total_supply + amount <= MaxU128
         /\ get_cap(config.mint) # {}
              => config.total_supply + amount <= The(get_cap(config.mint)))
          => LET r == mint(Store, The(config.mint).minter, recipient, amount) IN
               /\ r.res = "Ok"
               /\ query_balance(r.st, recipient) = query_balance(Store, recipient) + amount
               /\ total_supply_of(r.st) = config.total_supply + amount
               /\ \A a \in Addr \ {recipient} :
                    query_balance(r.st, a) = query_balance(Store, a)
----------------------------------------------------------------------------
(* C12 *)

\* C12: in every live state of the bridge token, a Deposit of a 16-byte amount for a
\* resource id no successful SetResourceId has named returns MissingResourceMapping,
\* and one for a registered id whose resolved address is not whitelisted (burnlisted
\* or not) returns AddressNotWhitelisted; neither changes a balance or the supply.
C12_DepositRejected ==
  Live =>
    \A sender \in BridgeCallers, resource_id \in ResourceIds, n \in U128 :
      LET r == deposit(Store, sender, resource_id, to_be_bytes(n))
          token_addr == RESOURCE_ID_TO_TOKEN_CONTRACT_ADDRESS(Store, resource_id) IN
        /\ resource_id \notin registered.ids
             => (r.res = "MissingResourceMapping"
                   /\ r.st.bal = BALANCES /\ r.st.info = TOKEN_INFO)
        /\ (resource_id \in registered.ids /\ token_addr.res = "Ok"
              /\ ~is_member(WHITELIST, token_addr.val))
             => (r.res = "AddressNotWhitelisted"
                   /\ r.st.bal = BALANCES /\ r.st.info = TOKEN_INFO)

----------------------------------------------------------------------------
\* the accounts that hold an entry in either of two stores
Accounts(s, t) == DOMAIN s.bal \cup DOMAIN t.bal

\* C13: a successful Deposit whose resolved address is on the whitelist and on the
\* burnlist burns: the caller's balance and the total supply each go down by the
\* amount, and no account is credited.
C13_DepositBurns ==
  Live =>
    \A sender \in BridgeCallers, resource_id \in ResourceIds, n \in U128 :
      LET r == deposit(Store, sender, resource_id, to_be_bytes(n))
          token_addr == RESOURCE_ID_TO_TOKEN_CONTRACT_ADDRESS(Store, resource_id) IN
        (/\ r.res = "Ok"
         /\ token_addr.res = "Ok"
         /\ is_member(WHITELIST, token_addr.val)
         /\ is_member(BURNLIST, token_addr.val))
          => /\ query_balance(r.st, sender) = query_balance(Store, sender) - n
             /\ total_supply_of(r.st) = total_supply_of(Store) - n
             /\ \A a \in Accounts(Store, r.st) :
                  query_balance(r.st, a) <= query_balance(Store, a)
             /\ \A a \in Accounts(Store, r.st) \ {sender} :
                  query_balance(r.st, a) = query_balance(Store, a)

\* C13: a state a burning Deposit has produced (nothing else lowers the supply below
\* the sum of the balances given at instantiate), in which one more can act
C13_Witness ==
  /\ Live
  /\ total_supply_of(Store) < 2
  /\ \E sender \in BridgeCallers, resource_id \in ResourceIds :
       LET token_addr == RESOURCE_ID_TO_TOKEN_CONTRACT_ADDRESS(Store, resource_id) IN
         /\ token_addr.res = "Ok"
         /\ is_member(WHITELIST, token_addr.val)
         /\ is_member(BURNLIST, token_addr.val)
         /\ deposit(Store, sender, resource_id, to_be_bytes(1)).res = "Ok"

\* C14: a successful Deposit whose resolved address is on the whitelist and not on
\* the burnlist is a transfer to that address: the caller's balance goes down by the
\* amount and the resolved address's goes up by it, the total supply and every other
\* balance stay; when the caller is the resolved address no balance changes.
C14_DepositTransfers ==
  Live =>
    \A sender \in BridgeCallers, resource_id \in ResourceIds, n \in U128 :
      LET r == deposit(Store, sender, resource_id, to_be_bytes(n))
          token_addr == RESOURCE_ID_TO_TOKEN_CONTRACT_ADDRESS(Store, resource_id) IN
        (/\ r.res = "Ok"
         /\ token_addr.res = "Ok"
         /\ is_member(WHITELIST, token_addr.val)
         /\ ~is_member(BURNLIST, token_addr.val))
          => /\ total_supply_of(r.st) = total_supply_of(Store)
             /\ \A a \in Accounts(Store, r.st) \ {sender, token_addr.val} :
                  query_balance(r.st, a) = query_balance(Store, a)
             /\ IF sender = token_addr.val
                  THEN query_balance(r.st, sender) = query_balance(Store, sender)
                  ELSE /\ query_balance(r.st, sender) = query_balance(Store, sender) - n
                       /\ query_balance(r.st, token_addr.val)
                            = query_balance(Store, token_addr.val) + n

\* C14: the address "2" holds tokens that a transfer to a resolved address brought it,
\* and a Deposit by another account to a resolved address on the whitelist only can act
C14_Witness ==
  /\ Live
  /\ query_balance(Store, "2") > 0
  /\ \E sender \in BridgeCallers, resource_id \in ResourceIds :
       LET token_addr == RESOURCE_ID_TO_TOKEN_CONTRACT_ADDRESS(Store, resource_id) IN
         /\ token_addr.res = "Ok"
         /\ token_addr.val # sender
         /\ is_member(WHITELIST, token_addr.val)
         /\ ~is_member(BURNLIST, token_addr.val)
         /\ deposit(Store, sender, resource_id, to_be_bytes(1)).res = "Ok"

\* the configured minter: Some(address) or None
minter_of(s) == IF s.info = {} THEN {} ELSE {m.minter : m \in The(s.info).mint}

\* the mint branch of a successful Proposal: the recipient's balance and the total
\* supply go up by the amount, every other balance stays, the caller is the minter
ProposalMints(s, r, sender, payload) ==
  /\ query_balance(r.st, payload.recipient_address)
       = query_balance(s, payload.recipient_address) + payload.amount
  /\ total_supply_of(r.st) = total_supply_of(s) + payload.amount
  /\ \A a \in Accounts(s, r.st) \ {payload.recipient_address} :
       query_balance(r.st, a) = query_balance(s, a)
  /\ minter_of(s) = {sender}

\* the transfer branch of a successful Proposal: the amount moves from the caller to
\* the resolved address, the total supply and every other balance stay
ProposalTransfers(s, r, sender, token_addr, payload) ==
  /\ total_supply_of(r.st) = total_supply_of(s)
  /\ \A a \in Accounts(s, r.st) \ {sender, token_addr} :
       query_balance(r.st, a) = query_balance(s, a)
  /\ IF sender = token_addr
       THEN query_balance(r.st, sender) = query_balance(s, sender)
       ELSE /\ query_balance(r.st, sender) = query_balance(s, sender) - payload.amount
            /\ query_balance(r.st, token_addr)
                 = query_balance(s, token_addr) + payload.amount

\* C15 as stated: a successful Proposal for a whitelisted resolved address mints the
\* payload's amount to the payload's recipient when the address is burnlisted (only
\* the minter's call succeeds) and otherwise transfers it from the caller to the
\* resolved address, and then the payload's recipient is not credited.
C15_ProposalAsStated ==
  Live =>
    \A sender \in BridgeCallers, resource_id \in ResourceIds,
       n \in U128, recipient \in BridgeCallers :
      LET payload == [amount |-> n, recipient_address |-> recipient]
          r == proposal(Store, sender, resource_id, ProposalData_encode(payload))
          token_addr == RESOURCE_ID_TO_TOKEN_CONTRACT_ADDRESS(Store, resource_id) IN
        (r.res = "Ok" /\ token_addr.res = "Ok" /\ is_member(WHITELIST, token_addr.val))
          => IF is_member(BURNLIST, token_addr.val)
               THEN ProposalMints(Store, r, sender, payload)
               ELSE /\ ProposalTransfers(Store, r, sender, token_addr.val, payload)
                    /\ query_balance(r.st, recipient) <= query_balance(Store, recipient)

\* C15, amended: the same, and on the transfer branch the payload's recipient is
\* credited only when it is the resolved address itself (and the caller is not).
C15_Proposal ==
  Live =>
    \A sender \in BridgeCallers, resource_id \in ResourceIds,
       n \in U128, recipient \in BridgeCallers :
      LET payload == [amount |-> n, recipient_address |-> recipient]
          r == proposal(Store, sender, resource_id, ProposalData_encode(payload))
          token_addr == RESOURCE_ID_TO_TOKEN_CONTRACT_ADDRESS(Store, resource_id) IN
        (r.res = "Ok" /\ token_addr.res = "Ok" /\ is_member(WHITELIST, token_addr.val))
          => IF is_member(BURNLIST, token_addr.val)
               THEN ProposalMints(Store, r, sender, payload)
               ELSE /\ ProposalTransfers(Store, r, sender, token_addr.val, payload)
                    /\ (recipient # token_addr.val \/ recipient = sender)
                         => query_balance(r.st, recipient)
                              <= query_balance(Store, recipient)
                    /\ (recipient = token_addr.val /\ recipient # sender)
                         => query_balance(r.st, recipient)
                              = query_balance(Store, recipient) + n

\* C15: a state in which a Proposal of the minter mints through one resource id and
\* a Proposal transfers through another, to a resolved address that is not the
\* payload's recipient, after a burn has made room under the largest supply
C15_Witness ==
  /\ Live
  /\ total_supply_of(Store) < 2
  /\ \E sender \in BridgeCallers, resource_id \in ResourceIds, recipient \in BridgeCallers :
       LET token_addr == RESOURCE_ID_TO_TOKEN_CONTRACT_ADDRESS(Store, resource_id) IN
         /\ token_addr.res = "Ok"
         /\ is_member(WHITELIST, token_addr.val)
         /\ is_member(BURNLIST, token_addr.val)
         /\ proposal(Store, sender, resource_id,
                     ProposalData_encode([amount |-> 1, recipient_address |-> recipient])).res
              = "Ok"
  /\ \E sender \in BridgeCallers, resource_id \in ResourceIds, recipient \in BridgeCallers :
       LET token_addr == RESOURCE_ID_TO_TOKEN_CONTRACT_ADDRESS(Store, resource_id) IN
         /\ token_addr.res = "Ok"
         /\ token_addr.val # recipient
         /\ is_member(WHITELIST, token_addr.val)
         /\ ~is_member(BURNLIST, token_addr.val)
         /\ proposal(Store, sender, resource_id,
                     ProposalData_encode([amount |-> 1, recipient_address |-> recipient])).res
              = "Ok"

\* a store with the balances and token info of s and with empty whitelist, burnlist
\* and resource registry
WithoutListsAndRegistry(s) ==
  [s EXCEPT !.white = EmptyMap, !.burn = EmptyMap, !.reg = EmptyMap]

\* Withdraw as a transfer from the caller to the payload's token address whose
\* outcome is the one it has with empty lists and an empty registry
WithdrawTransfers(s, r, sender, payload) ==
  LET bare == withdraw(WithoutListsAndRegistry(s), sender, WithdrawData_encode(payload)) IN
    /\ r.res = bare.res
    /\ r.st.bal = bare.st.bal /\ r.st.info = bare.st.info
    /\ r.res = "Ok" <=> (payload.amount > 0 /\ query_balance(s, sender) >= payload.amount)
    /\ r.res = "Ok" =>
         /\ total_supply_of(r.st) = total_supply_of(s)
         /\ \A a \in Accounts(s, r.st) \ {sender, payload.token_address} :
              query_balance(r.st, a) = query_balance(s, a)
         /\ IF sender = payload.token_address
              THEN query_balance(r.st, sender) = query_balance(s, sender)
              ELSE /\ query_balance(r.st, sender)
                        = query_balance(s, sender) - payload.amount
                   /\ query_balance(r.st, payload.token_address)
                        = query_balance(s, payload.token_address) + payload.amount

\* C16 as stated: in every state and whatever the whitelist, the burnlist and the
\* registry hold, Withdraw with a decodable payload transfers the payload's amount
\* from the caller to the payload's token address, its outcome depends only on the
\* balances, and the payload's recipient is never credited.
C16_WithdrawAsStated ==
  Live =>
    \A sender \in BridgeCallers, tk \in BridgeCallers, recipient \in BridgeCallers,
       n \in U128 :
      LET payload == [token_address |-> tk, recipient_address |-> recipient, amount |-> n]
          r == withdraw(Store, sender, WithdrawData_encode(payload)) IN
        /\ WithdrawTransfers(Store, r, sender, payload)
        /\ query_balance(r.st, recipient) <= query_balance(Store, recipient)

\* C16, amended: the same, and the payload's recipient is credited only when it is
\* the payload's token address itself (and the caller is not).
C16_Withdraw ==
  Live =>
    \A sender \in BridgeCallers, tk \in BridgeCallers, recipient \in BridgeCallers,
       n \in U128 :
      LET payload == [token_address |-> tk, recipient_address |-> recipient, amount |-> n]
          r == withdraw(Store, sender, WithdrawData_encode(payload)) IN
        /\ WithdrawTransfers(Store, r, sender, payload)
        /\ (recipient # tk \/ recipient = sender)
             => query_balance(r.st, recipient) <= query_balance(Store, recipient)
        /\ (r.res = "Ok" /\ recipient = tk /\ recipient # sender)
             => query_balance(r.st, recipient) = query_balance(Store, recipient) + n

\* C16: a state with empty lists and an empty registry in which a Withdraw has moved
\* a1's token to a2, and a2 can withdraw to a1 with a2 as the payload's recipient
C16_Witness ==
  /\ Live
  /\ WHITELIST = EmptyMap /\ BURNLIST = EmptyMap
  /\ resource_id_to_token_contract_address = EmptyMap
  /\ query_balance(Store, "a1") = 0 /\ query_balance(Store, "a2") = 2
  /\ withdraw(Store, "a2",
              WithdrawData_encode([token_address |-> "a1", recipient_address |-> "a2",
                                   amount |-> 1])).res = "Ok"

\* the registry holds the pair: the forward lookup of resource_id returns address and
\* the reverse lookup of address returns resource_id
Paired(s, resource_id, address) ==
  /\ RESOURCE_ID_TO_TOKEN_CONTRACT_ADDRESS(s, resource_id) = [res |-> "Ok", val |-> address]
  /\ TOKEN_CONTRACT_ADDRESS_TO_RESOURCE_ID(s, address) = [res |-> "Ok", val |-> resource_id]

\* C17: after set_resource_id(id, addr) succeeds the forward lookup of id returns addr
\* and the reverse lookup of addr returns id, for every id and address, and this stays
\* so through every later set_resource_id that names neither id nor addr.
C17_LastWriterWins ==
  Live =>
    \A resource_id \in ResourceIds, address \in RegistryAddrs :
      LET r == set_resource_id(Store, resource_id, address) IN
        /\ r.res = "Ok" => Paired(r.st, resource_id, address)
        /\ (resource_id \in registered.ids /\ address \in registered.addrs
              /\ Paired(Store, resource_id, address))
             => \A other_id \in ResourceIds \ {resource_id},
                   other_address \in RegistryAddrs \ {address} :
                  LET later == set_resource_id(Store, other_id, other_address) IN
                    later.res = "Ok" => Paired(later.st, resource_id, address)

\* C18: the forward lookup of a resource id that no successful set_resource_id had as
\* its first argument fails with NotFound (MissingResourceMapping), the reverse lookup
\* of an address that was never registered fails, and the registry is empty as long
\* as nothing was registered.
C18_UnsetLookupsFail ==
  Live =>
    /\ \A resource_id \in ResourceIds \ registered.ids :
         RESOURCE_ID_TO_TOKEN_CONTRACT_ADDRESS(Store, resource_id).res = "NotFound"
    /\ \A address \in Strings \ registered.addrs :
         TOKEN_CONTRACT_ADDRESS_TO_RESOURCE_ID(Store, address).res # "Ok"
    /\ (registered.ids = {} /\ registered.addrs = {})
         => resource_id_to_token_contract_address = EmptyMap

\* C19: the registry is a bijection in every state that set_resource_id calls reach:
\* the forward lookup of id returns addr if and only if the reverse lookup of addr
\* returns id, so no two ids resolve to one address.
C19_RegistryIsBijection ==
  Live =>
    \A resource_id \in ResourceIds, address \in Strings :
      RESOURCE_ID_TO_TOKEN_CONTRACT_ADDRESS(Store, resource_id)
          = [res |-> "Ok", val |-> address]
        <=> TOKEN_CONTRACT_ADDRESS_TO_RESOURCE_ID(Store, address)
              = [res |-> "Ok", val |-> resource_id]

\* the storage after the step
StoreAfter ==
  [bal |-> BALANCES', frozen |-> FROZEN_BALANCES', allow |-> ALLOWANCES',
   info |-> TOKEN_INFO', cap |-> BALANCE_CAP', white |-> WHITELIST', burn |-> BURNLIST',
   reg |-> resource_id_to_token_contract_address']

\* C20: no identifier is on a list in the initial state; a member of the whitelist
\* (of the burnlist) is a member in every later state, whatever operation follows;
\* and an identifier becomes a member only by add_to_list called for it on that list.
C20_MembershipIsPermanent ==
  /\ \A a \in Strings : ~is_member(WHITELIST, a) /\ ~is_member(BURNLIST, a)
  /\ [][\A a \in Strings :
          /\ is_member(WHITELIST, a) => is_member(WHITELIST', a)
          /\ is_member(BURNLIST, a) => is_member(BURNLIST', a)
          /\ (~is_member(WHITELIST, a) /\ is_member(WHITELIST', a))
               => (Live /\ StoreAfter = add_to_list(Store, a, "WhiteList").st)
          /\ (~is_member(BURNLIST, a) /\ is_member(BURNLIST', a))
               => (Live /\ StoreAfter = add_to_list(Store, a, "BurnList").st)]_vars

\* C20: a1 and "2" are on the whitelist and a1 on the burnlist, and a Deposit that
\* burns and a registration have followed
C20_Witness ==
  /\ Live
  /\ is_member(WHITELIST, "a1") /\ is_member(WHITELIST, "2") /\ is_member(BURNLIST, "a1")
  /\ ~is_member(BURNLIST, "2")
  /\ total_supply_of(Store) < 2
  /\ registered.ids = ResourceIds

\* the accounts that hold a role in the token's storage: the configured minter
Privileged(s) == minter_of(s)

\* C21: WhiteList, BurnList and SetResourceId sent by an account without privilege
\* fail and leave the whitelist, the burnlist and the registry as they were.
C21_OnlyPrivilegedWrites ==
  Live =>
    \A sender \in BridgeCallers \ Privileged(Store), address \in RegistryAddrs :
      /\ LET r == execute_WhiteList(Store, sender, address) IN
           r.res # "Ok" /\ r.st.white = WHITELIST
      /\ LET r == execute_BurnList(Store, sender, address) IN
           r.res # "Ok" /\ r.st.burn = BURNLIST
      /\ \A resource_id \in ResourceIds :
           LET r == execute_SetResourceId(Store, sender, resource_id, address) IN
             r.res # "Ok" /\ r.st.reg = resource_id_to_token_contract_address

\* two lists agree on every identifier but one
SameButFor(list, after, address) ==
  \A other \in (DOMAIN list \cup DOMAIN after \cup Strings) \ {address} :
    /\ Has(after, other) <=> Has(list, other)
    /\ Has(list, other) => after[other] = list[other]

\* C22: add_to_list on one list makes the identifier a member of that list and leaves
\* the list's other identifiers, the other list, the registry, the balances and the
\* rest of the storage as they were.
C22_ListsAreIndependent ==
  Live =>
    \A address \in Strings :
      LET w == add_to_list(Store, address, "WhiteList")
          b == add_to_list(Store, address, "BurnList") IN
        /\ w.res = "Ok" /\ is_member(w.st.white, address)
        /\ SameButFor(WHITELIST, w.st.white, address)
        /\ w.st.burn = BURNLIST
        /\ [w.st EXCEPT !.white = WHITELIST] = Store
        /\ b.res = "Ok" /\ is_member(b.st.burn, address)
        /\ SameButFor(BURNLIST, b.st.burn, address)
        /\ b.st.white = WHITELIST
        /\ [b.st EXCEPT !.burn = BURNLIST] = Store

\* C22: a1 is on both lists and "2" on the burnlist only, with a registry entry and
\* balances that the frame is about
C22_Witness ==
  /\ Live
  /\ is_member(WHITELIST, "a1") /\ is_member(BURNLIST, "a1")
  /\ ~is_member(WHITELIST, "2") /\ is_member(BURNLIST, "2")
  /\ resource_id_to_token_contract_address # EmptyMap
  /\ add_to_list(Store, "2", "WhiteList").st.burn = BURNLIST

\* C23: add_to_list succeeds for every list and identifier, and a second call with
\* the same arguments leaves the storage the first call left.
C23_AddToListIsIdempotent ==
  Live =>
    \A address \in Strings, list_type \in {"WhiteList", "BurnList"} :
      LET first == add_to_list(Store, address, list_type)
          second == add_to_list(first.st, address, list_type) IN
        /\ first.res = "Ok"
        /\ second.res = "Ok"
        /\ second.st = first.st

\* C23: a1 is on the whitelist, so that adding it again is the second call, and "2"
\* is not, so that adding it is a first call
C23_Witness ==
  /\ Live
  /\ is_member(WHITELIST, "a1") /\ ~is_member(WHITELIST, "2")
  /\ add_to_list(Store, "a1", "WhiteList").st = Store
  /\ add_to_list(Store, "2", "WhiteList").st # Store

\* C24: the balance cap that instantiate wrote is never changed: no step of a live
\* contract alters BALANCE_CAP, and no execute call, returning Ok or an error, hands
\* back a storage with another cap (the queries read the storage and return a value).
C24_CapNeverChanges ==
  /\ [](Live => /\ BALANCE_CAP # {}
                /\ \A r \in ExecuteCalls(Store) : r.st.cap = BALANCE_CAP)
  /\ [][Live => BALANCE_CAP' = BALANCE_CAP]_vars

\* C24: a live contract whose cap is below the largest amount, after a mint and a
\* change of the frozen list, and in which a mint over the cap is refused
C24_Witness ==
  /\ Live
  /\ BALANCE_CAP = {MaxU128 - 1}
  /\ total_supply_of(Store) = MaxU128
  /\ FROZEN_BALANCES # EmptyMap
  /\ \E r \in ExecuteCalls(Store) : r.res = "CannotExceedCap"

Add(a, x) == [kind |-> "Add", address |-> a, amount |-> x]

Sub(a, x) == [kind |-> "Sub", address |-> a, amount |-> x]

\* C25: Add(a, x) sets the frozen balance of a to old + x, an absent entry counting
\* as zero, and fails with an overflow error and an unchanged frozen balance when
\* old + x is beyond the largest amount; Sub(a, x) sets it to old - x and fails with
\* an overflow error, not BalanceFrozen, and an unchanged frozen balance when x > old;
\* Sub(a, x) after a successful Add(a, x) brings the queried frozen balance back.
C25_FrozenAddSub ==
  Live =>
    \A a \in Addr, x \in U128 :
      LET old == query_frozen_balance(Store, a)
          add == update_frozen_list(Store, Add(a, x))
          sub == update_frozen_list(Store, Sub(a, x))
          back == update_frozen_list(add.st, Sub(a, x)) IN
        /\ IF old + x <= MaxU128
             THEN add.res = "Ok" /\ query_frozen_balance(add.st, a) = old + x
             ELSE add.res = "Overflow" /\ add.st.frozen = FROZEN_BALANCES
        /\ IF x <= old
             THEN sub.res = "Ok" /\ query_frozen_balance(sub.st, a) = old - x
             ELSE sub.res = "Overflow" /\ sub.st.frozen = FROZEN_BALANCES
        /\ add.res = "Ok"
             => back.res = "Ok" /\ query_frozen_balance(back.st, a) = old

\* C25: a1's frozen balance is the largest amount, so that Add overflows, and a2 has
\* no entry, so that Add starts from zero and Sub of a positive amount fails
C25_Witness ==
  /\ Live
  /\ query_frozen_balance(Store, "a1") = MaxU128
  /\ ~Has(FROZEN_BALANCES, "a2")
  /\ update_frozen_list(Store, Add("a1", 1)).res = "Overflow"
  /\ update_frozen_list(Store, Sub("a2", 1)).res = "Overflow"
  /\ update_frozen_list(Store, Add("a2", 1)).res = "Ok"

\* C26: Discard(a) always succeeds, and afterwards a has no frozen entry and its
\* frozen balance reads zero, whatever the entry was before: absent, within the
\* balance or above the balance.
C26_DiscardClears ==
  Live =>
    \A a \in Addr :
      LET d == update_frozen_list(Store, Discard(a)) IN
        /\ d.res = "Ok"
        /\ ~Has(d.st.frozen, a)
        /\ query_frozen_balance(d.st, a) = 0

\* C26: a1 has more frozen than it holds and a2 has no frozen entry; Discard
\* succeeds for both
C26_Witness ==
  /\ Live
  /\ Has(FROZEN_BALANCES, "a1")
  /\ query_frozen_balance(Store, "a1") > query_balance(Store, "a1")
  /\ ~Has(FROZEN_BALANCES, "a2")
  /\ update_frozen_list(Store, Discard("a1")).res = "Ok"
  /\ update_frozen_list(Store, Discard("a2")).res = "Ok"

\* C27: set_resource_id(id, addr) changes only the forward entry of id and the
\* reverse entry of addr: the forward lookup of every other id and the reverse lookup
\* of every other address return after the call what they returned before it, for
\* all ids and all address strings.
C27_SetResourceIdFrame ==
  Live =>
    \A resource_id \in ResourceIds, address \in RegistryAddrs :
      LET r == set_resource_id(Store, resource_id, address) IN
        r.res = "Ok" =>
          /\ \A other_id \in ResourceIds \ {resource_id} :
               RESOURCE_ID_TO_TOKEN_CONTRACT_ADDRESS(r.st, other_id)
                 = RESOURCE_ID_TO_TOKEN_CONTRACT_ADDRESS(Store, other_id)
          /\ \A other_address \in Strings \ {address} :
               TOKEN_CONTRACT_ADDRESS_TO_RESOURCE_ID(r.st, other_address)
                 = TOKEN_CONTRACT_ADDRESS_TO_RESOURCE_ID(Store, other_address)

\* C28: mint, transfer and transfer_from return CannotExceedCap only when carrying
\* the operation out would leave the recipient's balance above balance_cap; a
\* transfer or transfer_from whose recipient is the debited account is not rejected
\* for the cap while that account's balance is within the cap.
C28_CapRejectsOnlyExcess ==
  Live =>
    \A sender \in Addr, owner \in Addr, recipient \in Addr, amount \in U128 :
      /\ mint(Store, sender, recipient, amount).res = "CannotExceedCap"
           => LET done == execute_mint(Store, sender, recipient, amount) IN
                done.res = "Ok"
                  => query_balance(done.st, recipient) > balance_cap_of(Store)
      /\ transfer(Store, sender, recipient, amount).res = "CannotExceedCap"
           => LET done == execute_transfer(Store, sender, recipient, amount) IN
                done.res = "Ok"
                  => query_balance(done.st, recipient) > balance_cap_of(Store)
      /\ transfer_from(Store, sender, owner, recipient, amount).res = "CannotExceedCap"
           => LET done == execute_transfer_from(Store, sender, owner, recipient, amount) IN
                done.res = "Ok"
                  => query_balance(done.st, recipient) > balance_cap_of(Store)

\* C29: the cap check of mint, transfer and transfer_from is safe against overflow:
\* when the recipient's balance plus amount is beyond the largest 128-bit amount the
\* call that reaches the check returns CannotExceedCap; it does not abort, and the
\* operation is not carried out.
C29_CapCheckIsOverflowSafe ==
  Live =>
    \A sender \in Addr, owner \in Addr, recipient \in Addr, amount \in U128 :
      query_balance(Store, recipient) + amount > MaxU128 =>
        /\ Has(BALANCES, recipient)
             => mint(Store, sender, recipient, amount).res = "CannotExceedCap"
        /\ frozen_guard(Store, sender, amount) = "Ok"
             => /\ transfer(Store, sender, recipient, amount).res = "CannotExceedCap"
                /\ transfer_from(Store, sender, owner, recipient, amount).res
                     = "CannotExceedCap"

\* the (id, address) pairs of the successful SetResourceId calls, when these calls
\* named one address only (as under OrderSpec); otherwise the pairs they can have named
SetPairs == registered.ids \X registered.addrs

\* C30: a successful Deposit or Proposal for resource id r whose resolved address is
\* a comes after a successful SetResourceId(r, a) and a successful WhiteList(a); when
\* it burns or mints it also comes after a successful BurnList(a), so no bridge burn
\* or mint happens for an address that was never burnlisted.
C30_BridgeEventsAreOrdered ==
  Live =>
    \A sender \in BridgeCallers, resource_id \in ResourceIds :
      LET token_addr == RESOURCE_ID_TO_TOKEN_CONTRACT_ADDRESS(Store, resource_id)
          burns_or_mints(r) == total_supply_of(r.st) # total_supply_of(Store) IN
        /\ \A data \in DepositPayloads :
             LET r == deposit(Store, sender, resource_id, data) IN
               r.res = "Ok" =>
                 /\ token_addr.res = "Ok"
                 /\ <<resource_id, token_addr.val>> \in SetPairs
                 /\ token_addr.val \in registered.white
                 /\ burns_or_mints(r) => token_addr.val \in registered.burn
        /\ \A data \in ProposalPayloads :
             LET r == proposal(Store, sender, resource_id, data) IN
               r.res = "Ok" =>
                 /\ token_addr.res = "Ok"
                 /\ <<resource_id, token_addr.val>> \in SetPairs
                 /\ token_addr.val \in registered.white
                 /\ burns_or_mints(r) => token_addr.val \in registered.burn

\* the storage with the frozen entry of one account left out
WithoutFrozenOf(s, a) == [s EXCEPT !.frozen = Remove(s.frozen, a)]

\* C31: UpdateFrozenList (Add, Sub or Discard on account a) changes nothing but the
\* frozen entry of a: balances, total supply, cap, allowances and the frozen entry of
\* every other account are as before, whether the call succeeds or fails; its result
\* and the storage it leaves are the same for every caller; and every step of the
\* live contract that changes a frozen balance changes nothing else.
C31_UpdateFrozenListFrame ==
  /\ [](Live =>
         \A sender \in Addr, ut \in UpdateTypesOf(Addr) :
           LET r == execute_UpdateFrozenList(Store, sender, ut) IN
             /\ WithoutFrozenOf(r.st, ut.address) = WithoutFrozenOf(Store, ut.address)
             /\ r.res # "Ok" => r.st = Store
             /\ \A caller \in Addr : execute_UpdateFrozenList(Store, caller, ut) = r)
  /\ [][(Live /\ FROZEN_BALANCES' # FROZEN_BALANCES)
          => /\ UNCHANGED <<BALANCES, ALLOWANCES, TOKEN_INFO, BALANCE_CAP, WHITELIST,
                            BURNLIST, resource_id_to_token_contract_address>>
             /\ \E a \in Addr :
                  Remove(FROZEN_BALANCES', a) = Remove(FROZEN_BALANCES, a)]_vars

\* C31: a1 and a2 have frozen entries, an allowance is granted and there is a
\* minter; a2, who is not the minter, changes the frozen balance of a1, and a
\* Sub fails
C31_Witness ==
  /\ Live
  /\ Has(FROZEN_BALANCES, "a1") /\ Has(FROZEN_BALANCES, "a2")
  /\ ALLOWANCES # EmptyMap
  /\ The(TOKEN_INFO).mint # {} /\ The(The(TOKEN_INFO).mint).minter = "a1"
  /\ LET r == execute_UpdateFrozenList(Store, "a2", Add("a1", 1)) IN
       /\ r.res = "Ok"
       /\ query_frozen_balance(r.st, "a1") # query_frozen_balance(Store, "a1")
  /\ execute_UpdateFrozenList(Store, "a2", Sub("a2", MaxU128)).res = "Overflow"
====
